---- MODULE Spec2Model ----
(***************************************************************************)
(* NiceShot (src/src/niceshot.cpp): the asynchronous PNG job system        *)
(* (worker pool, job queue, job registry) and the video capture session    *)
(* (ring buffer, background encoding thread), as a state machine.          *)
(*                                                                         *)
(* Threads: the host's caller threads (Callers), the PNG worker threads    *)
(* (Workers) and the session's encoding thread.  Every step of a thread    *)
(* that another thread can observe is one action; statements executed      *)
(* under one mutex with no wait in between are one action.                 *)
(*                                                                         *)
(* Host discipline: niceshot_init / niceshot_shutdown / set_thread_count   *)
(* read and write the plain (non-atomic, unlocked) globals g_initialized   *)
(* and g_worker_threads, so the host issues them only while no other API   *)
(* call is in progress; every other API call may overlap any other.        *)
(***************************************************************************)
EXTENDS Integers, Sequences, FiniteSets, TLC

\* ---------------------------------------------------------------- bounds
MaxJobs    == 2          \* g_next_job_id never passes MaxJobs + 1
MaxFrames  == 4          \* frames pushed per session (captured + dropped)
MaxBufferFrames == 2     \* largest max_buffer_frames passed to start_recording

\* ------------------------------------------------------ program constants
QUEUED     == 0
PROCESSING == 1
COMPLETED  == 2
FAILED     == -1
NOT_FOUND  == -2
NOT_RECORDING == 0
RECORDING  == 1
FINALIZING == 2
ERROR_STATE == -1
ThreadCap  == 8
SizeofVideoFrame == 48
BytesPerPixel == 4
FrameDropped == -1
MaxDimension == 16384       \* the per-axis limit of niceshot_save_png (line 590)

Callers == {1, 2}                \* the host threads calling the API
\* A double argument (the recording settings read by atof, the thread count)
\* is modelled as an integer number of 1/DoubleScale, so 1 stands for 0.5.
DoubleScale == 2

Workers == 1..ThreadCap          \* g_worker_threads: at most 8 worker threads
JobIds  == 1..MaxJobs
\* thread identities, as mutex owners (0 = the mutex is free)
WorkerTid(w) == 10 + w
EncoderTid   == 20

HwChoices    == {0, 1, 2}        \* std::thread::hardware_concurrency()
CountChoices == {0, 2, 4, 18}    \* niceshot_set_thread_count(0.0, 1.0, 2.0, 9.0)
Dims   == {<<1, 1>>, <<0, 1>>, <<1, -1>>, <<16385, 1>>}   \* (width, height) of save_png_async
Pixels == {"A", "B"}             \* contents of the host's pixel buffer

Terminal == {COMPLETED, FAILED}

\* cret[c] is what the step just taken returned to caller c: the API function
\* that returned and its value (NoRet if that step returned nothing to c).
NoRet  == [fn |-> "none", val |-> 0]
NoRets == [c \in Callers |-> NoRet]

VARIABLES
    \* ---- async PNG job system (niceshot.cpp 41-47, 154-162)
    g_initialized,          \* static bool
    g_thread_count,         \* atomic<size_t>, 0 = auto-detect
    g_shutdown_requested,   \* atomic<bool>
    g_next_job_id,          \* atomic<uint32_t>
    g_job_queue,            \* queue<shared_ptr<PngJob>>: sequence of job objects
    g_active_jobs,          \* unordered_map<id, shared_ptr<PngJob>>: set of keys
    g_job_mutex,            \* owner thread id, 0 = free
    jobs,                   \* the PngJob objects, by job_id
    wpc, wjob, wok,         \* per worker: position, local `job`, local `success`
    \* ---- host threads
    cpc, carg, cret,        \* per caller: position, argument / local, last return
    hostBuffer,             \* contents of the host's pixel buffer
    \* ---- video recording (niceshot.cpp 106-152)
    g_recording_mutex,      \* owner thread id, 0 = free
    g_recording_session,    \* unique_ptr<VideoRecordingSession>, NoSession = nullptr
    buffer_mutex,           \* session->buffer_mutex: owner thread id, 0 = free
    epc, eframe,            \* encoding thread: position, local `frame`
    encodedLog              \* frame_number of every frame encoded in this session

jobVars  == <<g_initialized, g_thread_count, g_shutdown_requested, g_next_job_id,
              g_job_queue, g_active_jobs, g_job_mutex, jobs,
              wpc, wjob, wok>>
hostVars == <<cpc, carg, cret, hostBuffer>>
capVars  == <<g_recording_mutex, g_recording_session, buffer_mutex, epc, eframe,
              encodedLog>>
vars     == <<jobVars, hostVars, capVars>>

\* ---------------------------------------------------------------- PngJob
NoJob == [status |-> NOT_FOUND, buffer_data |-> [owned |-> TRUE, px |-> "none"],
          submitted |-> "none", encoded |-> "none"]

PngJobAlias(pixels) == [owned |-> FALSE, px |-> pixels]

\* PngJob::PngJob copies the caller's pixels into the job's own vector.
PngJobBuffer(pixels) == [owned |-> TRUE, px |-> pixels]

\* job->buffer_data.data() as handed to encode_png_to_file
BufferData(bd) == IF bd.owned THEN bd.px ELSE hostBuffer

PngJob(pixels) ==
    [status |-> QUEUED, buffer_data |-> PngJobBuffer(pixels),
     submitted |-> pixels, encoded |-> "none"]

\* shared_ptr: a job object lives while the queue, the registry, a worker's
\* local `job` or a submitter's local `job` refers to it.
Range(s) == {s[i] : i \in DOMAIN s}
Referenced(q, reg, wj, ca, pc) ==
    Range(q) \cup reg \cup {wj[w] : w \in Workers}
      \cup {ca[c] : c \in {d \in Callers : pc[d] \in {"sub_push", "sub_notify"}}}
Reap(js, q, reg, wj, ca, pc) ==
    [i \in JobIds |-> IF i \in Referenced(q, reg, wj, ca, pc) THEN js[i] ELSE NoJob]

\* ---------------------------------------------- VideoRecordingSession
NoFrame == -1

NoSession ==
    [exists |-> FALSE, width |-> 0, height |-> 0, max_buffer_frames |-> 0,
     frame_buffer |-> <<>>, status |-> NOT_RECORDING,
     frames_captured |-> 0, frames_encoded |-> 0, frames_dropped |-> 0,
     current_buffer_memory |-> 0, max_buffer_memory |-> 0, stop_encoding |-> FALSE]

\* width * height * 4 + sizeof(VideoFrame): lines 141 and 1072, and
\* VideoFrame::get_memory_size (pixel_data.size() + sizeof(VideoFrame))
FrameSize(w, h) == w * h * BytesPerPixel + SizeofVideoFrame

\* VideoRecordingSession::VideoRecordingSession
VideoRecordingSession(w, h, max_frames) ==
    [exists |-> TRUE, width |-> w, height |-> h, max_buffer_frames |-> max_frames,
     frame_buffer |-> <<>>, status |-> NOT_RECORDING,
     frames_captured |-> 0, frames_encoded |-> 0, frames_dropped |-> 0,
     current_buffer_memory |-> 0,
     max_buffer_memory |-> FrameSize(w, h) * max_frames, stop_encoding |-> FALSE]

\* the workers blocked inside g_job_condition.wait
JobWaiters == {w \in Workers : wpc[w] = "waiting"}

Init ==
    /\ g_initialized = FALSE
    /\ g_thread_count = 0
    /\ g_shutdown_requested = FALSE
    /\ g_next_job_id = 1
    /\ g_job_queue = <<>>
    /\ g_active_jobs = {}
    /\ g_job_mutex = 0
    /\ jobs = [i \in JobIds |-> NoJob]
    /\ wpc = [w \in Workers |-> "none"]
    /\ wjob = [w \in Workers |-> 0]
    /\ wok = [w \in Workers |-> FALSE]
    /\ cpc = [c \in Callers |-> "idle"]
    /\ carg = [c \in Callers |-> 0]
    /\ cret = NoRets
    /\ hostBuffer = "A"
    /\ g_recording_mutex = 0
    /\ g_recording_session = NoSession
    /\ buffer_mutex = 0
    /\ epc = "none"
    /\ eframe = NoFrame
    /\ encodedLog = <<>>

\* ------------------------------------------------------------ host calls
\* a step of a worker or of the encoding thread: the callers stay where they are
NoCall == UNCHANGED <<cpc, carg, hostBuffer>> /\ cret' = NoRets

OthersIdle(c) == \A d \in Callers \ {c} : cpc[d] = "idle"
LifecycleBusy == \E d \in Callers : cpc[d] \in {"sd_notify", "sd_join"}
CanCall(c)    == cpc[c] = "idle" /\ ~LifecycleBusy

Return(c, f, v) ==
    /\ cpc' = [cpc EXCEPT ![c] = "idle"]
    /\ cret' = [NoRets EXCEPT ![c] = [fn |-> f, val |-> v]]
    /\ carg' = [carg EXCEPT ![c] = 0]

Goto(c, pc, a) ==
    /\ cpc' = [cpc EXCEPT ![c] = pc]
    /\ cret' = NoRets
    /\ carg' = [carg EXCEPT ![c] = a]

\* niceshot_init: thread count, flags, spawn the workers, g_initialized.
HwThreadCount(hw) == IF hw = 0 THEN 1 ELSE IF hw > ThreadCap THEN ThreadCap ELSE hw

NeverInitialized == FALSE

\* line 363: if (g_initialized)
AlreadyInitialized == g_initialized

niceshot_init(c, hw) ==
    /\ CanCall(c) /\ OthersIdle(c)
    /\ IF AlreadyInitialized
       THEN UNCHANGED jobVars
       ELSE LET thread_count == IF g_thread_count = 0 THEN HwThreadCount(hw)
                                ELSE g_thread_count
            IN /\ g_thread_count' = thread_count
               /\ g_shutdown_requested' = FALSE
               /\ wpc' = [w \in Workers |-> IF w <= thread_count THEN "loop" ELSE "none"]
               /\ g_initialized' = TRUE
               /\ UNCHANGED <<g_next_job_id, g_job_queue, g_active_jobs, g_job_mutex,
                              jobs, wjob, wok>>
    /\ Return(c, "init", 1)
    /\ UNCHANGED hostBuffer
    /\ UNCHANGED capVars

\* The argument of niceshot_set_thread_count is a double, modelled like the
\* recording settings as an integer number of 1/DoubleScale (2 stands for
\* 1.0, 17 for 8.5).  Line 857, static_cast<size_t>(thread_count), drops the
\* fraction; for a value of -1.0 or below the conversion is undefined, and
\* the builds give either 0 (saturation) or a wrapped value far above the
\* cap, which WrappedCount stands for.
WrappedCount == 1000000

CountAsGiven(thread_count) == {thread_count}

SizeTOfDouble(thread_count) ==
    IF thread_count <= -DoubleScale THEN {0, WrappedCount}
    ELSE IF thread_count < 0 THEN {0}
    ELSE {thread_count \div DoubleScale}

\* niceshot_set_thread_count
niceshot_set_thread_count(c, thread_count) ==
    /\ CanCall(c) /\ OthersIdle(c)
    /\ \E count \in SizeTOfDouble(thread_count) :
          IF g_initialized \/ count < 1 \/ count > ThreadCap
          THEN /\ Return(c, "set_thread_count", 0)
               /\ UNCHANGED g_thread_count
          ELSE /\ Return(c, "set_thread_count", 1)
               /\ g_thread_count' = count
    /\ UNCHANGED <<g_initialized, g_shutdown_requested, g_next_job_id, g_job_queue,
                   g_active_jobs, g_job_mutex, jobs, wpc, wjob, wok,
                   hostBuffer>>
    /\ UNCHANGED capVars

\* niceshot_shutdown, lines 404-414: the early return, or raise the flag.
ShutdownBegin(c) ==
    /\ CanCall(c) /\ OthersIdle(c)
    /\ IF ~g_initialized
       THEN /\ Return(c, "shutdown", 1)
            /\ UNCHANGED g_shutdown_requested
       ELSE /\ Goto(c, "sd_notify", 0)
            /\ g_shutdown_requested' = TRUE
    /\ UNCHANGED <<g_initialized, g_thread_count, g_next_job_id, g_job_queue,
                   g_active_jobs, g_job_mutex, jobs, wpc, wjob, wok,
                   hostBuffer>>
    /\ UNCHANGED capVars

\* line 415: g_job_condition.notify_all()
ShutdownNotify(c) ==
    /\ cpc[c] = "sd_notify"
    /\ wpc' = [w \in Workers |-> IF w \in JobWaiters THEN "lock" ELSE wpc[w]]
    /\ Goto(c, "sd_join", 0)
    /\ UNCHANGED <<g_initialized, g_thread_count, g_shutdown_requested, g_next_job_id,
                   g_job_queue, g_active_jobs, g_job_mutex, jobs, wjob, wok, hostBuffer>>
    /\ UNCHANGED capVars

\* line 436: g_next_job_id = 1
KeepJobId == g_next_job_id

ResetJobId == 1

\* lines 417-440: join every worker, clear the queue and the registry under
\* the mutex, reset the id counter, clear g_initialized.
ShutdownJoin(c) ==
    /\ cpc[c] = "sd_join"
    /\ \A w \in Workers : wpc[w] \in {"none", "exited"}
    /\ g_job_mutex = 0
    /\ wpc' = [w \in Workers |-> "none"]
    /\ g_job_queue' = <<>>
    /\ g_active_jobs' = {}
    /\ jobs' = Reap(jobs, <<>>, {}, wjob, carg, cpc)
    /\ g_next_job_id' = ResetJobId
    /\ g_initialized' = FALSE
    /\ Return(c, "shutdown", 1)
    /\ UNCHANGED <<g_thread_count, g_shutdown_requested, g_job_mutex, wjob, wok, hostBuffer>>
    /\ UNCHANGED capVars

\* niceshot_save_png_async, lines 725-751: the checks, fetch_add on the id
\* counter, and the PngJob constructed from the caller's pixels.
\* fetch_add(1) on atomic<uint32_t>; the guard on MaxJobs keeps the counter far
\* below the 2^32 wrap, which TLC's integers cannot hold.
SameJobId(n) == n

NextJobId(n) == n + 1

SubmitBegin(c, width, height) ==
    /\ CanCall(c)
    /\ hostBuffer \in Pixels
    /\ IF ~g_initialized \/ width <= 0 \/ height <= 0
       THEN /\ Return(c, "save_png_async", 0)
            /\ UNCHANGED <<g_next_job_id, jobs>>
       ELSE /\ g_next_job_id <= MaxJobs
            /\ g_next_job_id' = NextJobId(g_next_job_id)
            /\ jobs' = [jobs EXCEPT ![g_next_job_id] = PngJob(hostBuffer)]
            /\ Goto(c, "sub_push", g_next_job_id)
    /\ UNCHANGED <<g_initialized, g_thread_count, g_shutdown_requested, g_job_queue,
                   g_active_jobs, g_job_mutex, wpc, wjob, wok, hostBuffer>>
    /\ UNCHANGED capVars

\* lines 754-758: push and register under g_job_mutex
SubmitPush(c) ==
    /\ cpc[c] = "sub_push"
    /\ g_job_mutex = 0
    /\ g_job_queue' = Append(g_job_queue, carg[c])
    /\ g_active_jobs' = g_active_jobs \cup {carg[c]}
    /\ Goto(c, "sub_notify", carg[c])
    /\ UNCHANGED <<g_initialized, g_thread_count, g_shutdown_requested, g_next_job_id,
                   g_job_mutex, jobs, wpc, wjob, wok, hostBuffer>>
    /\ UNCHANGED capVars

\* lines 761-766: notify_one, return the id
SubmitNotify(c) ==
    /\ cpc[c] = "sub_notify"
    /\ IF JobWaiters = {}
       THEN UNCHANGED wpc
       ELSE \E w \in JobWaiters : wpc' = [wpc EXCEPT ![w] = "lock"]
    /\ Return(c, "save_png_async", carg[c])
    /\ UNCHANGED <<g_initialized, g_thread_count, g_shutdown_requested, g_next_job_id,
                   g_job_queue, g_active_jobs, g_job_mutex, jobs, wjob, wok, hostBuffer>>
    /\ UNCHANGED capVars

\* niceshot_get_job_status: the checks, then the lookup under g_job_mutex.
\* The call takes effect when it holds the mutex; until then the caller has
\* changed nothing.
StatusOfJobObject(id) == jobs[id].status

\* lines 785-790: g_active_jobs.find(id), -2 or the job's status
LookupStatus(id) == IF id \in g_active_jobs THEN jobs[id].status ELSE NOT_FOUND

niceshot_get_job_status(c, id) ==
    /\ CanCall(c)
    /\ IF ~g_initialized \/ id = 0
       THEN Return(c, "get_job_status", NOT_FOUND)
       ELSE /\ g_job_mutex = 0
            /\ Return(c, "get_job_status", LookupStatus(id))
    /\ UNCHANGED <<jobVars, hostBuffer>>
    /\ UNCHANGED capVars

\* niceshot_cleanup_job: the checks, then under g_job_mutex erase the job if
\* it is completed or failed.
CanCleanupUnlessQueued(id) == id \in g_active_jobs /\ jobs[id].status # QUEUED

CanCleanup(id) == id \in g_active_jobs /\ jobs[id].status \in Terminal

EraseNothing(registry, id) == registry

\* line 811: g_active_jobs.erase(it)
EraseJob(registry, id) == registry \ {id}

niceshot_cleanup_job(c, id) ==
    /\ CanCall(c)
    /\ IF ~g_initialized \/ id = 0
       THEN /\ Return(c, "cleanup_job", 0)
            /\ UNCHANGED <<g_active_jobs, jobs>>
       ELSE /\ g_job_mutex = 0
            /\ IF CanCleanup(id)
               THEN /\ g_active_jobs' = EraseJob(g_active_jobs, id)
                    /\ Return(c, "cleanup_job", 1)
                    /\ jobs' = Reap(jobs, g_job_queue, g_active_jobs', wjob, carg', cpc')
               ELSE /\ Return(c, "cleanup_job", 0)
                    /\ UNCHANGED <<g_active_jobs, jobs>>
    /\ UNCHANGED <<g_initialized, g_thread_count, g_shutdown_requested, g_next_job_id,
                   g_job_queue, g_job_mutex, wpc, wjob, wok, hostBuffer>>
    /\ UNCHANGED capVars

\* niceshot_get_pending_job_count
niceshot_get_pending_job_count(c) ==
    /\ CanCall(c)
    /\ IF ~g_initialized
       THEN Return(c, "get_pending_job_count", -1)
       ELSE /\ g_job_mutex = 0
            /\ Return(c, "get_pending_job_count", Len(g_job_queue))
    /\ UNCHANGED <<jobVars, hostBuffer>>
    /\ UNCHANGED capVars

\* ---------------------------------------------------- worker_thread_main
\* line 173: while (!g_shutdown_requested.load())
WorkerLoop(w) ==
    /\ wpc[w] = "loop"
    /\ wpc' = [wpc EXCEPT ![w] = IF g_shutdown_requested THEN "exited" ELSE "lock"]
    /\ wjob' = [wjob EXCEPT ![w] = 0]
    /\ UNCHANGED <<g_initialized, g_thread_count, g_shutdown_requested, g_next_job_id,
                   g_job_queue, g_active_jobs, g_job_mutex, jobs, wok>>
    /\ NoCall
    /\ UNCHANGED capVars

WaitForShutdownOnly == g_shutdown_requested

\* the predicate of g_job_condition.wait (line 182)
WaitPredicate == g_job_queue # <<>> \/ g_shutdown_requested

\* lines 178-183: take g_job_mutex (at entry, or when woken inside wait) and
\* evaluate the predicate; wait returns when it holds.
WorkerAcquire(w) ==
    /\ wpc[w] = "lock"
    /\ g_job_mutex = 0
    /\ g_job_mutex' = WorkerTid(w)
    /\ wpc' = [wpc EXCEPT ![w] = IF WaitPredicate THEN "claim" ELSE "block"]
    /\ UNCHANGED <<g_initialized, g_thread_count, g_shutdown_requested, g_next_job_id,
                   g_job_queue, g_active_jobs, jobs, wjob, wok>>
    /\ NoCall
    /\ UNCHANGED capVars

\* inside wait: the predicate was false; release the mutex and block.
WorkerBlock(w) ==
    /\ wpc[w] = "block"
    /\ g_job_mutex' = 0
    /\ wpc' = [wpc EXCEPT ![w] = "waiting"]
    /\ UNCHANGED <<g_initialized, g_thread_count, g_shutdown_requested, g_next_job_id,
                   g_job_queue, g_active_jobs, jobs, wjob, wok>>
    /\ NoCall
    /\ UNCHANGED capVars

\* condition_variable::wait may wake without a notification.
WorkerSpuriousWake(w) ==
    /\ wpc[w] = "waiting"
    /\ wpc' = [wpc EXCEPT ![w] = "lock"]
    /\ UNCHANGED <<g_initialized, g_thread_count, g_shutdown_requested, g_next_job_id,
                   g_job_queue, g_active_jobs, g_job_mutex, jobs, wjob, wok>>
    /\ NoCall
    /\ UNCHANGED capVars

\* line 191: g_job_queue.pop()
KeepQueue(q) == q

PopBack(q) == SubSeq(q, 1, Len(q) - 1)

PopQueue(q) == Tail(q)

\* line 194: the unique_lock on g_job_mutex ends with its block, before the
\* encode
KeepLocked(w) == WorkerTid(w)

UnlockAtBlockEnd(w) == 0

\* lines 185-194: exit on shutdown with an empty queue, else claim the head.
WorkerClaim(w) ==
    /\ wpc[w] = "claim"
    /\ g_job_mutex' = UnlockAtBlockEnd(w)
    /\ IF g_shutdown_requested /\ g_job_queue = <<>>
       THEN /\ wpc' = [wpc EXCEPT ![w] = "exited"]
            /\ UNCHANGED <<g_job_queue, jobs, wjob>>
       ELSE IF g_job_queue # <<>>
       THEN /\ wjob' = [wjob EXCEPT ![w] = Head(g_job_queue)]
            /\ g_job_queue' = PopQueue(g_job_queue)
            /\ jobs' = [jobs EXCEPT ![Head(g_job_queue)].status = PROCESSING]
            /\ wpc' = [wpc EXCEPT ![w] = "encode"]
       ELSE /\ wpc' = [wpc EXCEPT ![w] = "loop"]
            /\ UNCHANGED <<g_job_queue, jobs, wjob>>
    /\ UNCHANGED <<g_initialized, g_thread_count, g_shutdown_requested, g_next_job_id,
                   g_active_jobs, wok>>
    /\ NoCall
    /\ UNCHANGED capVars

\* lines 197-207: encode_png_to_file on the job's buffer, outside the lock.
WorkerEncode(w, success) ==
    /\ wpc[w] = "encode"
    /\ jobs' = [jobs EXCEPT ![wjob[w]].encoded = BufferData(jobs[wjob[w]].buffer_data)]
    /\ wok' = [wok EXCEPT ![w] = success]
    /\ wpc' = [wpc EXCEPT ![w] = "update"]
    /\ UNCHANGED <<g_initialized, g_thread_count, g_shutdown_requested, g_next_job_id,
                   g_job_queue, g_active_jobs, g_job_mutex, wjob>>
    /\ NoCall
    /\ UNCHANGED capVars

\* line 212: job->status = success ? COMPLETED : FAILED
AlwaysCompleted(success) == COMPLETED

ResultStatus(success) == IF success THEN COMPLETED ELSE FAILED

\* lines 210-219: record the result under g_job_mutex; `job` dies with the
\* loop body.
WorkerUpdate(w) ==
    /\ wpc[w] = "update"
    /\ g_job_mutex = 0
    /\ jobs' = [jobs EXCEPT ![wjob[w]].status = ResultStatus(wok[w])]
    /\ wok' = [wok EXCEPT ![w] = FALSE]
    /\ wpc' = [wpc EXCEPT ![w] = "loop"]
    /\ UNCHANGED <<g_initialized, g_thread_count, g_shutdown_requested, g_next_job_id,
                   g_job_queue, g_active_jobs, g_job_mutex, wjob>>
    /\ NoCall
    /\ UNCHANGED capVars

\* ---------------------------------------------- niceshot_start_recording
\* lines 976-1049.  `spawned` is whether std::thread could be created (its
\* constructor throws std::system_error otherwise, caught at line 1044).
\* The five settings are doubles read by atof (lines 1002-1006), in units of
\* 1/DoubleScale.
\* static_cast<uint32_t> and static_cast<size_t> of a positive double (lines
\* 1029-1031) drop the fraction
TruncateDouble(x) == x \div DoubleScale

AlwaysRecording == TRUE

NeverRecording == FALSE

RecordingWhileInitialized ==
    /\ g_initialized
    /\ g_recording_session.exists
    /\ g_recording_session.status = RECORDING

AlreadyRecording == g_recording_session.exists /\ g_recording_session.status = RECORDING

\* line 1046: the catch block resets g_recording_session
CreatedSessionKept(created) == created

SessionAfterCatch(created) == NoSession

niceshot_start_recording(c, width, height, fps, bitrate_kbps, max_buffer_frames, spawned) ==
    /\ CanCall(c)
    /\ IF \/ ~g_initialized
          \/ width <= 0 \/ height <= 0 \/ fps <= 0 \/ bitrate_kbps <= 0
          \/ max_buffer_frames <= 0
       THEN /\ Return(c, "start_recording", 0)
            /\ UNCHANGED capVars
       ELSE /\ g_recording_mutex = 0
            /\ IF AlreadyRecording
               THEN /\ Return(c, "start_recording", 0)
                    /\ UNCHANGED capVars
               ELSE IF spawned
               THEN /\ g_recording_session' =
                         [VideoRecordingSession(TruncateDouble(width),
                                                TruncateDouble(height),
                                                TruncateDouble(max_buffer_frames))
                            EXCEPT !.status = RECORDING]
                    /\ epc' = "loop"
                    /\ eframe' = NoFrame
                    /\ encodedLog' = <<>>
                    /\ Return(c, "start_recording", 1)
                    /\ UNCHANGED <<g_recording_mutex, buffer_mutex>>
               ELSE /\ g_recording_session' =
                         SessionAfterCatch(
                            [VideoRecordingSession(TruncateDouble(width),
                                                   TruncateDouble(height),
                                                   TruncateDouble(max_buffer_frames))
                               EXCEPT !.status = RECORDING])
                    /\ epc' = "none"
                    /\ eframe' = NoFrame
                    /\ encodedLog' = <<>>
                    /\ Return(c, "start_recording", 0)
                    /\ UNCHANGED <<g_recording_mutex, buffer_mutex>>
    /\ UNCHANGED <<jobVars, hostBuffer>>

\* ------------------------------------------------- niceshot_record_frame
\* lines 1056-1088: take g_recording_mutex, reject when not recording or the
\* pointer does not parse, drop when the frame does not fit, else build the
\* VideoFrame (frame_number = frames_captured) and keep the mutex.
BufferFullIgnoringFrame(sess) ==
    sess.current_buffer_memory > sess.max_buffer_memory

BufferFullAtCeiling(sess) ==
    sess.current_buffer_memory + FrameSize(sess.width, sess.height)
        >= sess.max_buffer_memory

BufferFull(sess) ==
    sess.current_buffer_memory + FrameSize(sess.width, sess.height)
        > sess.max_buffer_memory

RecordFrameBegin(c, ptr_ok) ==
    /\ CanCall(c)
    /\ g_recording_mutex = 0
    /\ IF ~AlreadyRecording \/ ~ptr_ok
       THEN /\ Return(c, "record_frame", 0)
            /\ UNCHANGED <<g_recording_session, g_recording_mutex>>
       ELSE IF BufferFull(g_recording_session)
            THEN /\ g_recording_session' =
                      [g_recording_session EXCEPT !.frames_dropped = @ + 1]
                 /\ Return(c, "record_frame", FrameDropped)
                 /\ UNCHANGED g_recording_mutex
            ELSE /\ g_recording_mutex' = c
                 /\ Goto(c, "rf_push", g_recording_session.frames_captured)
                 /\ UNCHANGED g_recording_session
    /\ UNCHANGED <<jobVars, hostBuffer, buffer_mutex, epc, eframe, encodedLog>>

\* lines 1091-1095: under buffer_mutex, add the footprint and push_back
RecordFramePush(c) ==
    /\ cpc[c] = "rf_push"
    /\ buffer_mutex = 0
    /\ g_recording_session' =
         [g_recording_session EXCEPT
            !.current_buffer_memory =
                @ + FrameSize(g_recording_session.width, g_recording_session.height),
            !.frame_buffer = Append(@, carg[c])]
    /\ Goto(c, "rf_notify", carg[c])
    /\ UNCHANGED <<jobVars, hostBuffer, g_recording_mutex, buffer_mutex, epc, eframe,
                   encodedLog>>

\* lines 1098-1101: notify_one, frames_captured++, return 1 (the lock_guard
\* on g_recording_mutex ends)
RecordFrameNotify(c) ==
    /\ cpc[c] = "rf_notify"
    /\ epc' = IF epc = "waiting" THEN "lock" ELSE epc
    /\ g_recording_session' = [g_recording_session EXCEPT !.frames_captured = @ + 1]
    /\ g_recording_mutex' = 0
    /\ Return(c, "record_frame", 1)
    /\ UNCHANGED <<jobVars, hostBuffer, buffer_mutex, eframe, encodedLog>>

\* -------------------------------------------------- niceshot_stop_recording
\* line 1110: the lock_guard on g_recording_mutex lives to the end of
\* niceshot_stop_recording
StopDropsLock(c) == 0

StopKeepsLock(c) == c

\* lines 1110-1122: take g_recording_mutex; FINALIZING and stop_encoding
StopBegin(c) ==
    /\ CanCall(c)
    /\ g_recording_mutex = 0
    /\ IF ~AlreadyRecording
       THEN /\ Return(c, "stop_recording", 0)
            /\ UNCHANGED <<g_recording_session, g_recording_mutex>>
       ELSE /\ g_recording_session' =
                 [g_recording_session EXCEPT !.status = FINALIZING,
                                             !.stop_encoding = TRUE]
            /\ g_recording_mutex' = StopKeepsLock(c)
            /\ Goto(c, "stop_notify", 0)
    /\ UNCHANGED <<jobVars, hostBuffer, buffer_mutex, epc, eframe, encodedLog>>

\* line 1123: buffer_condition.notify_all()
StopNotify(c) ==
    /\ cpc[c] = "stop_notify"
    /\ epc' = IF epc = "waiting" THEN "lock" ELSE epc
    /\ Goto(c, "stop_join", 0)
    /\ UNCHANGED <<jobVars, hostBuffer, g_recording_mutex, g_recording_session,
                   buffer_mutex, eframe, encodedLog>>

\* lines 1126-1143: join the encoding thread, log, reset the session
StopJoin(c) ==
    /\ cpc[c] = "stop_join"
    /\ epc = "exited"
    /\ g_recording_session' = NoSession
    /\ epc' = "none"
    /\ encodedLog' = <<>>
    /\ g_recording_mutex' = 0
    /\ Return(c, "stop_recording", 1)
    /\ UNCHANGED <<jobVars, hostBuffer, buffer_mutex, eframe>>

\* ------------------------------------------------------ status queries
\* lines 1159-1160: (double(current_buffer_memory) / max_buffer_memory) * 100.0,
\* rounded down to a whole percent.  The division is IEEE double division: a
\* zero divisor gives NaN for 0/0 and +infinity otherwise, and both are kept
\* as values of their own, outside every range of percentages.
NaN == -1000
PositiveInfinity == 1000000

UsagePercent(current, ceiling) ==
    IF ceiling = 0
    THEN IF current = 0 THEN NaN ELSE PositiveInfinity
    ELSE (current * 100) \div ceiling

niceshot_get_recording_buffer_usage(c) ==
    /\ CanCall(c)
    /\ g_recording_mutex = 0
    /\ IF ~AlreadyRecording
       THEN Return(c, "get_recording_buffer_usage", -1)
       ELSE Return(c, "get_recording_buffer_usage",
                   UsagePercent(g_recording_session.current_buffer_memory,
                                g_recording_session.max_buffer_memory))
    /\ UNCHANGED <<jobVars, hostBuffer, capVars>>

niceshot_get_recording_frame_count(c) ==
    /\ CanCall(c)
    /\ g_recording_mutex = 0
    /\ IF ~g_recording_session.exists
       THEN Return(c, "get_recording_frame_count", -1)
       ELSE Return(c, "get_recording_frame_count", g_recording_session.frames_captured)
    /\ UNCHANGED <<jobVars, hostBuffer, capVars>>

niceshot_get_recording_status(c) ==
    /\ CanCall(c)
    /\ g_recording_mutex = 0
    /\ IF ~g_recording_session.exists
       THEN Return(c, "get_recording_status", NOT_RECORDING)
       ELSE Return(c, "get_recording_status", g_recording_session.status)
    /\ UNCHANGED <<jobVars, hostBuffer, capVars>>

\* ------------------------------------------- video_encoding_thread_main
\* line 234: while (!session->stop_encoding.load())
EncLoop ==
    /\ epc = "loop"
    /\ epc' = IF g_recording_session.stop_encoding THEN "exited" ELSE "lock"
    /\ NoCall
    /\ UNCHANGED <<jobVars, g_recording_mutex, g_recording_session, buffer_mutex,
                   eframe, encodedLog>>

\* the predicate of buffer_condition.wait (line 243)
BufferPredicate ==
    g_recording_session.frame_buffer # <<>> \/ g_recording_session.stop_encoding

\* lines 239-244: take buffer_mutex (at entry, or when woken inside wait) and
\* evaluate the predicate
EncAcquire ==
    /\ epc = "lock"
    /\ buffer_mutex = 0
    /\ buffer_mutex' = EncoderTid
    /\ epc' = IF BufferPredicate THEN "take" ELSE "block"
    /\ NoCall
    /\ UNCHANGED <<jobVars, g_recording_mutex, g_recording_session, eframe, encodedLog>>

\* inside wait: the predicate was false; release the mutex and block
EncBlock ==
    /\ epc = "block"
    /\ buffer_mutex' = 0
    /\ epc' = "waiting"
    /\ NoCall
    /\ UNCHANGED <<jobVars, g_recording_mutex, g_recording_session, eframe, encodedLog>>

\* condition_variable::wait may wake without a notification
EncSpuriousWake ==
    /\ epc = "waiting"
    /\ epc' = "lock"
    /\ NoCall
    /\ UNCHANGED <<jobVars, g_recording_mutex, g_recording_session, buffer_mutex,
                   eframe, encodedLog>>

\* lines 251-252: frame_buffer.front() and pop_front()
TakeNewestFrame(buffer) ==
    [frame |-> buffer[Len(buffer)], rest |-> SubSeq(buffer, 1, Len(buffer) - 1)]

FrontWithoutPop(buffer) == [frame |-> Head(buffer), rest |-> buffer]

TakeFrame(buffer) == [frame |-> Head(buffer), rest |-> Tail(buffer)]

\* lines 246-253: exit on stop with an empty buffer, else move the front
\* frame out of the buffer
EncTake ==
    /\ epc = "take"
    /\ IF g_recording_session.stop_encoding /\ g_recording_session.frame_buffer = <<>>
       THEN /\ epc' = "exited"
            /\ buffer_mutex' = 0
            /\ UNCHANGED <<g_recording_session, eframe>>
       ELSE IF g_recording_session.frame_buffer # <<>>
       THEN /\ eframe' = TakeFrame(g_recording_session.frame_buffer).frame
            /\ g_recording_session' =
                 [g_recording_session EXCEPT !.frame_buffer = TakeFrame(@).rest]
            /\ epc' = "sub"
            /\ UNCHANGED buffer_mutex
       ELSE /\ epc' = "loop"
            /\ buffer_mutex' = 0
            /\ UNCHANGED <<g_recording_session, eframe>>
    /\ NoCall
    /\ UNCHANGED <<jobVars, g_recording_mutex, encodedLog>>

\* line 255: current_buffer_memory.fetch_sub(frame->get_memory_size()), and
\* the end of the locked block
EncSub ==
    /\ epc = "sub"
    /\ g_recording_session' =
         [g_recording_session EXCEPT
            !.current_buffer_memory =
                @ - FrameSize(g_recording_session.width, g_recording_session.height)]
    /\ buffer_mutex' = 0
    /\ epc' = "encode"
    /\ NoCall
    /\ UNCHANGED <<jobVars, g_recording_mutex, eframe, encodedLog>>

\* line 268: the progress log is written when frames_encoded % 60 == 0
ProgressInterval == 60

LogsProgress(frames_encoded) == frames_encoded % ProgressInterval = 0

\* lines 260-268: encode the frame (outside the lock), frames_encoded++; the
\* frame dies at the end of the iteration (line 277), after the progress log
\* when there is one
EncEncode ==
    /\ epc = "encode"
    /\ encodedLog' = Append(encodedLog, eframe)
    /\ g_recording_session' = [g_recording_session EXCEPT !.frames_encoded = @ + 1]
    /\ IF LogsProgress(g_recording_session.frames_encoded + 1)
       THEN epc' = "log" /\ UNCHANGED eframe
       ELSE epc' = "loop" /\ eframe' = NoFrame
    /\ NoCall
    /\ UNCHANGED <<jobVars, g_recording_mutex, buffer_mutex>>

\* lines 269-275: the progress log reads session->frame_buffer.size() with no
\* lock held.  The value read goes to std::cout only, so whatever the racing
\* read yields, the state is left as it is.
EncLogProgress ==
    /\ epc = "log"
    /\ epc' = "loop"
    /\ eframe' = NoFrame
    /\ NoCall
    /\ UNCHANGED <<jobVars, g_recording_mutex, g_recording_session, buffer_mutex,
                   encodedLog>>

\* ------------------------------------------------------------- the host
\* The host rewrites or frees its pixel buffer at any moment outside the
\* constructor's memcpy (the memcpy is inside the step SubmitBegin).
HostWriteBuffer(p) ==
    /\ ~LifecycleBusy
    /\ hostBuffer # p
    /\ hostBuffer' = p
    /\ cret' = NoRets
    /\ UNCHANGED <<jobVars, cpc, carg>>
    /\ UNCHANGED capVars

\* ------------------------------------------------------- specifications
WorkerNext ==
    \E w \in Workers :
        \/ WorkerLoop(w)
        \/ WorkerAcquire(w)
        \/ WorkerBlock(w)
        \/ WorkerSpuriousWake(w)
        \/ WorkerClaim(w)
        \/ \E ok \in BOOLEAN : WorkerEncode(w, ok)
        \/ WorkerUpdate(w)

ConfigNext ==
    \E c \in Callers, n \in CountChoices : niceshot_set_thread_count(c, n)

LifecycleNext ==
    \E c \in Callers :
        \/ \E hw \in HwChoices : niceshot_init(c, hw)
        \/ ShutdownBegin(c)
        \/ ShutdownNotify(c)
        \/ ShutdownJoin(c)

JobCallNext ==
    \E c \in Callers :
        \/ \E d \in Dims : SubmitBegin(c, d[1], d[2])
        \/ SubmitPush(c)
        \/ SubmitNotify(c)
        \/ \E id \in 0..MaxJobs : niceshot_get_job_status(c, id)
        \/ \E id \in 0..MaxJobs : niceshot_cleanup_job(c, id)
        \/ niceshot_get_pending_job_count(c)

JobNext == LifecycleNext \/ JobCallNext \/ WorkerNext

JobSpec == Init /\ [][JobNext]_vars

SubmitNext ==
    \E c \in Callers :
        \/ \E d \in Dims : SubmitBegin(c, d[1], d[2])
        \/ SubmitPush(c)
        \/ SubmitNotify(c)

\* the job system without cleanup: every issued id stays registered until
\* shutdown
QueryNext ==
    \/ LifecycleNext
    \/ SubmitNext
    \/ \E c \in Callers, id \in 0..MaxJobs : niceshot_get_job_status(c, id)
    \/ \E c \in Callers : niceshot_get_pending_job_count(c)
    \/ WorkerNext

QuerySpec == Init /\ [][QueryNext]_vars

\* the job system without its read-only queries
CleanupNext ==
    \/ LifecycleNext
    \/ SubmitNext
    \/ \E c \in Callers, id \in 0..MaxJobs : niceshot_cleanup_job(c, id)
    \/ WorkerNext

CleanupSpec == Init /\ [][CleanupNext]_vars

\* settings strings "width,height,fps,bitrate,buffer_frames" as the doubles
\* atof reads, in units of 1/DoubleScale: 1x1 frames with 1..MaxBufferFrames
\* buffer frames, a 2x1 session, half a buffer frame, and zero values
StartArgs ==
    {<<2, 2, 60, 2000, 2 * m>> : m \in 1..MaxBufferFrames}
      \cup {<<4, 2, 60, 2000, 4>>, <<2, 2, 60, 2000, 1>>, <<0, 2, 60, 2000, 2>>,
            <<2, 2, 0, 2000, 2>>, <<2, 2, 60, 2000, 0>>}

\* a settings string is kept as the sequence of what atof reads in each of
\* its comma-separated fields (lines 989-996): the five-field strings of
\* StartArgs, one with a sixth field and one with four fields
SettingsStrings ==
    StartArgs \cup {<<2, 2, 60, 2000, 2, 14>>, <<2, 2, 60, 2000>>}

\* what atof may read from params[i] past the end of the vector: the element
\* is not there, the read is undefined
GarbageDoubles == {0, 2}

\* lines 998-1006: a field count other than five is logged and parsing goes
\* on; params[0..4] are read whatever the size of the vector
ParamsRead(settings) ==
    {[i \in 1..5 |-> IF i <= Len(settings) THEN settings[i] ELSE g] :
        g \in GarbageDoubles}

\* the host offers at most MaxFrames frames to a session (calls that are
\* rejected are not counted)
FramesLeft(ptr_ok) ==
    (AlreadyRecording /\ ptr_ok)
    => g_recording_session.frames_captured
         + g_recording_session.frames_dropped < MaxFrames

CaptureCallNext ==
    \E c \in Callers :
        \/ \E settings \in SettingsStrings :
              \E a \in ParamsRead(settings), spawned \in BOOLEAN :
                 niceshot_start_recording(c, a[1], a[2], a[3], a[4], a[5], spawned)
        \/ \E ptr_ok \in BOOLEAN : FramesLeft(ptr_ok) /\ RecordFrameBegin(c, ptr_ok)
        \/ RecordFramePush(c)
        \/ RecordFrameNotify(c)
        \/ StopBegin(c)
        \/ StopNotify(c)
        \/ StopJoin(c)
        \/ niceshot_get_recording_buffer_usage(c)
        \/ niceshot_get_recording_frame_count(c)
        \/ niceshot_get_recording_status(c)

EncoderNext ==
    \/ EncLoop
    \/ EncAcquire
    \/ EncBlock
    \/ EncSpuriousWake
    \/ EncTake
    \/ EncSub
    \/ EncEncode

\* the capture subsystem, on a system initialized with one worker
CapNext ==
    \/ \E c \in Callers : niceshot_init(c, 1)
    \/ CaptureCallNext
    \/ EncoderNext

CapSpec == Init /\ [][CapNext]_vars

\* a long capture: one 1x1 session with a two-frame buffer and a host that
\* offers a frame only while the buffer has room, so that the encoding thread
\* gets as far as its progress log
LongCaptureNext ==
    \/ \E c \in Callers : niceshot_init(c, 1)
    \/ \E c \in Callers : niceshot_start_recording(c, 2, 2, 60, 2000, 4, TRUE)
    \/ \E c \in Callers :
          \/ /\ AlreadyRecording
             /\ ~BufferFull(g_recording_session)
             /\ g_recording_session.frames_captured < ProgressInterval
             /\ RecordFrameBegin(c, TRUE)
          \/ RecordFramePush(c)
          \/ RecordFrameNotify(c)
    \/ EncoderNext
    \/ EncLogProgress

LongCaptureSpec == Init /\ [][LongCaptureNext]_vars

\* the job system with a host that rewrites or frees its pixel buffer at any
\* moment
HostNext == \E p \in Pixels \cup {"freed"} : HostWriteBuffer(p)

PixNext ==
    \/ \E c \in Callers, hw \in HwChoices : niceshot_init(c, hw)
    \/ SubmitNext
    \/ WorkerNext
    \/ HostNext

PixSpec == Init /\ [][PixNext]_vars

\* the job system while it stays initialized, with the scheduling the threads
\* get: a thread that can take a step takes it (WF), a thread waiting for
\* g_job_mutex gets it when it is released again and again (SF), and every
\* encoder call returns.
LiveNext ==
    \/ \E c \in Callers, hw \in HwChoices : niceshot_init(c, hw)
    \/ SubmitNext
    \/ WorkerNext

WorkerRuns(w) ==
    \/ WorkerLoop(w)
    \/ WorkerBlock(w)
    \/ WorkerClaim(w)
    \/ \E ok \in BOOLEAN : WorkerEncode(w, ok)

WorkerLocks(w) == WorkerAcquire(w) \/ WorkerUpdate(w)

SubmitRuns(c) == SubmitPush(c) \/ SubmitNotify(c)

\* the workers niceshot_init can spawn when the thread count comes from
\* HwChoices (the others never run, and fairness says nothing about them)
SpawnableWorkers == {w \in Workers : \E hw \in HwChoices : w <= HwThreadCount(hw)}

LiveFairness ==
    /\ \A w \in SpawnableWorkers : WF_vars(WorkerRuns(w)) /\ SF_vars(WorkerLocks(w))
    /\ \A c \in Callers : SF_vars(SubmitRuns(c))

LiveSpec == Init /\ [][LiveNext]_vars /\ LiveFairness

\* the job system with shutdown, under the same scheduling: the thread inside
\* niceshot_shutdown keeps running too.  WorkerSpuriousWake is a step the
\* implementation may take, never one it owes.
ShutNext ==
    \/ LifecycleNext
    \/ SubmitNext
    \/ WorkerNext

ShutdownRuns(c) == ShutdownNotify(c) \/ ShutdownJoin(c)

ShutFairness ==
    /\ LiveFairness
    /\ \A c \in Callers : SF_vars(ShutdownRuns(c))

ShutSpec == Init /\ [][ShutNext]_vars /\ ShutFairness

\* a recording session under the scheduling the threads get: the encoding
\* thread keeps running (WF) and gets buffer_mutex when it is released again
\* and again (SF), the callers inside record_frame and stop_recording keep
\* running, and every encode returns.  EncSpuriousWake is never owed.
EncoderRuns == EncLoop \/ EncBlock \/ EncTake \/ EncSub \/ EncEncode

RecordRuns(c) == RecordFramePush(c) \/ RecordFrameNotify(c)

StopRuns(c) == StopNotify(c) \/ StopJoin(c)

CapFairness ==
    /\ WF_vars(EncoderRuns)
    /\ SF_vars(EncAcquire)
    /\ \A c \in Callers : SF_vars(RecordRuns(c)) /\ WF_vars(StopRuns(c))

CapLiveSpec == Init /\ [][CapNext]_vars /\ CapFairness

\* configuration and start of the pool, up to the first job: every
\* thread-count argument class (-1.0, 0, 0.5, 1, 2, 8, 8.5, 9), a machine
\* with more hardware threads than the cap, and the workers going to wait on
\* the empty queue
ThreadCountArgs == {-2, 0, 1, 2, 4, 16, 17, 18}

HwAll == HwChoices \cup {2 * ThreadCap}

IdleWorkerNext ==
    \E w \in Workers :
        \/ WorkerLoop(w)
        \/ WorkerAcquire(w)
        \/ WorkerBlock(w)
        \/ WorkerSpuriousWake(w)

PoolNext ==
    \/ \E c \in Callers, n \in ThreadCountArgs : niceshot_set_thread_count(c, n)
    \/ \E c \in Callers, hw \in HwAll : niceshot_init(c, hw)
    \/ IdleWorkerNext

PoolSpec == Init /\ [][PoolNext]_vars

\* a 1x1 session with a one-frame buffer, and a width of zero
BothTiersStartArgs == {<<2, 2, 60, 2000, 2>>, <<0, 2, 60, 2000, 2>>}

\* both tiers side by side: one worker, 1x1 jobs, one 1x1 session with a
\* one-frame buffer that is offered one frame, and shutdown and a second
\* initialize at any idle moment
BothTiersNext ==
    \/ \E c \in Callers :
          \/ niceshot_init(c, 1)
          \/ ShutdownBegin(c)
          \/ ShutdownNotify(c)
          \/ ShutdownJoin(c)
    \/ \E c \in Callers :
          \/ SubmitBegin(c, 1, 1)
          \/ SubmitPush(c)
          \/ SubmitNotify(c)
    \/ WorkerNext
    \/ \E c \in Callers :
          \/ \E a \in BothTiersStartArgs, spawned \in BOOLEAN :
                niceshot_start_recording(c, a[1], a[2], a[3], a[4], a[5], spawned)
          \/ \E ptr_ok \in BOOLEAN :
                /\ g_recording_session.frames_captured
                     + g_recording_session.frames_dropped = 0
                /\ RecordFrameBegin(c, ptr_ok)
          \/ RecordFramePush(c)
          \/ RecordFrameNotify(c)
          \/ StopBegin(c)
          \/ StopNotify(c)
          \/ StopJoin(c)
          \/ niceshot_get_recording_status(c)
    \/ EncoderNext

BothTiersSpec == Init /\ [][BothTiersNext]_vars

Next ==
    ConfigNext \/ JobNext \/ HostNext \/ CaptureCallNext \/ EncoderNext
        \/ EncLogProgress

Spec == Init /\ [][Next]_vars


\* =================================================================== claims
Session == g_recording_session
Footprint == FrameSize(Session.width, Session.height)
Recording == Session.exists /\ Session.status = RECORDING

\* C2: in every reachable state of a capture session the current memory usage
\* is at most the memory ceiling and the ring buffer holds at most
\* max_buffer_frames frames; the encoding thread holds buffer_mutex only for
\* the pop, never while it encodes, so a full buffer is answered by a drop and
\* the producer is not made to wait for an encode.
C2_MemoryBounded ==
    /\ Session.exists =>
         /\ Session.current_buffer_memory <= Session.max_buffer_memory
         /\ Len(Session.frame_buffer) <= Session.max_buffer_frames
    /\ buffer_mutex = EncoderTid => epc \in {"block", "take", "sub"}

C2_Witness ==
    /\ Recording
    /\ Session.max_buffer_frames = MaxBufferFrames
    /\ Len(Session.frame_buffer) = Session.max_buffer_frames
    /\ Session.current_buffer_memory = Session.max_buffer_memory
    /\ Session.frames_dropped > 0
    /\ epc = "encode"

\* C3: the frames handed to the encoder are the accepted frames in the order
\* they were accepted (frame numbers 0, 1, 2, ...): none out of order, none
\* twice.
C3_EncodedInCaptureOrder ==
    \A i \in DOMAIN encodedLog : encodedLog[i] = i - 1

C3_Witness ==
    /\ Len(encodedLog) >= 2
    /\ Session.frames_dropped > 0
    /\ Session.frame_buffer # <<>>

\* C4: when record_frame runs on a RECORDING session whose usage plus one
\* frame footprint exceeds the ceiling, it returns -1, frames_dropped grows by
\* exactly 1, and usage, ring buffer and frames_captured stay as they were.
C4_DropLeavesBufferAlone ==
    [][\A c \in Callers :
         ( /\ RecordFrameBegin(c, TRUE)
           /\ Recording
           /\ Session.current_buffer_memory + Footprint > Session.max_buffer_memory )
         => /\ cret'[c] = [fn |-> "record_frame", val |-> FrameDropped]
            /\ Session'.frames_dropped = Session.frames_dropped + 1
            /\ Session'.current_buffer_memory = Session.current_buffer_memory
            /\ Session'.frame_buffer = Session.frame_buffer
            /\ Session'.frames_captured = Session.frames_captured
            /\ cpc'[c] = "idle"]_vars

C4_Witness ==
    /\ \E c \in Callers : cret[c] = [fn |-> "record_frame", val |-> FrameDropped]
    /\ Session.frames_dropped = 2
    /\ Session.frames_captured = 1

\* C5: an encoding thread exists exactly while a session exists (one slot,
\* one thread), and start_recording on a RECORDING session returns 0 and
\* leaves the session (counters, ring buffer, usage, status) and its thread
\* as they were.
StartRecordingCall(c) ==
    \E a \in StartArgs, spawned \in BOOLEAN :
        niceshot_start_recording(c, a[1], a[2], a[3], a[4], a[5], spawned)

C5_SecondStartRejected ==
    /\ [](Session.exists <=> epc # "none")
    /\ [][\A c \in Callers :
            (StartRecordingCall(c) /\ Recording)
            => /\ cret'[c] = [fn |-> "start_recording", val |-> 0]
               /\ UNCHANGED <<g_recording_session, epc, eframe, buffer_mutex,
                              encodedLog>>]_vars

C5_Witness ==
    /\ \E c \in Callers : cret[c] = [fn |-> "start_recording", val |-> 0]
    /\ Recording
    /\ Session.frames_captured > 0
    /\ Session.frame_buffer # <<>>

\* C6: when stop_recording has joined the encoding thread, every accepted
\* frame has been encoded and the ring buffer is empty; the thread exits only
\* with stop signaled and the buffer empty.
C6_StopDrains ==
    epc = "exited" =>
        /\ Session.stop_encoding
        /\ Session.frame_buffer = <<>>
        /\ Session.frames_encoded = Session.frames_captured


\* C1: while the system stays initialized and every encoder call returns,
\* every job that submit registered reaches COMPLETED or FAILED.
C1_EveryJobFinishes ==
    \A id \in JobIds :
        (id \in g_active_jobs /\ jobs[id].status \in {QUEUED, PROCESSING})
            ~> (jobs[id].status \in Terminal)

C1_Witness ==
    /\ g_active_jobs = JobIds
    /\ \A id \in JobIds : jobs[id].status \in Terminal
    /\ g_thread_count = 2
    /\ JobWaiters = {1, 2}

\* C7: no step removes a job from the registry while its status is QUEUED or
\* PROCESSING, and the job a worker is encoding still exists.
C7_LiveJobsStayRegistered ==
    /\ [][\A id \in JobIds :
            (id \in g_active_jobs /\ jobs[id].status \in {QUEUED, PROCESSING})
            => id \in g_active_jobs']_vars
    /\ [](\A w \in Workers : wpc[w] = "encode" => jobs[wjob[w]] # NoJob)

\* C8: cleanup_job(id) erases job id and returns 1 exactly when the system is
\* initialized, id is not 0 and job id is registered with status COMPLETED or
\* FAILED; otherwise it returns 0 and leaves registry and queue as they were.
C8_CleanupIffTerminal ==
    [][\A c \in Callers, id \in 0..MaxJobs :
         (cret'[c].fn = "cleanup_job" /\ niceshot_cleanup_job(c, id)) =>
            IF /\ g_initialized /\ id # 0 /\ id \in g_active_jobs
               /\ jobs[id].status \in {COMPLETED, FAILED}
            THEN /\ cret'[c] = [fn |-> "cleanup_job", val |-> 1]
                 /\ g_active_jobs' = g_active_jobs \ {id}
                 /\ g_job_queue' = g_job_queue
            ELSE /\ cret'[c] = [fn |-> "cleanup_job", val |-> 0]
                 /\ UNCHANGED <<g_active_jobs, g_job_queue, jobs>>]_vars

C8_Witness ==
    /\ \E c \in Callers : cret[c] = [fn |-> "cleanup_job", val |-> 1]
    /\ \E id \in JobIds : id \in g_active_jobs /\ jobs[id].status = PROCESSING

\* C9: the id a submit registers and returns is positive, is not the id of a
\* job in the registry at that moment, and is not the id held by another
\* submit in progress.
InSubmit(c) == cpc[c] \in {"sub_push", "sub_notify"}

C9_FreshPositiveId ==
    [][\A c \in Callers :
         /\ SubmitPush(c) =>
              /\ carg[c] > 0
              /\ carg[c] \notin g_active_jobs
              /\ \A d \in Callers \ {c} : InSubmit(d) => carg[d] # carg[c]
         /\ SubmitNotify(c) =>
              /\ carg[c] > 0
              /\ cret'[c] = [fn |-> "save_png_async", val |-> carg[c]]]_vars

C9_Witness ==
    \E c \in Callers, d \in Callers :
        /\ cret[c] = [fn |-> "save_png_async", val |-> 2]
        /\ cpc[d] = "sub_notify" /\ carg[d] = 1
        /\ g_active_jobs = {1, 2}

\* C10: what a worker hands to the encoder is what the caller's buffer held
\* when submit was called: every job owns its copy from the moment it exists,
\* so no worker reads the caller's buffer, whatever the host does to that
\* buffer afterwards.
C10_EncodesSubmittedPixels ==
    \A id \in JobIds :
        jobs[id] # NoJob =>
            /\ jobs[id].buffer_data = [owned |-> TRUE, px |-> jobs[id].submitted]
            /\ jobs[id].encoded \in {"none", jobs[id].submitted}

C10_Witness ==
    \E id \in JobIds :
        /\ jobs[id].status = COMPLETED
        /\ jobs[id].encoded = "A"
        /\ hostBuffer = "freed"

\* C11: niceshot_shutdown always returns: once it has raised the shutdown flag
\* every worker exits (blocked in the wait, about to block after evaluating
\* the predicate, or encoding), so the join completes.
C11_ShutdownTerminates ==
    \A c \in Callers : (cpc[c] = "sd_notify") ~> (cpc[c] = "idle")

\* C12: niceshot_stop_recording on a RECORDING session always returns: the
\* encoding thread cannot miss the stop signal and stay blocked on
\* buffer_condition, so the join completes and the session is discarded.
C12_StopTerminates ==
    \A c \in Callers :
        (cpc[c] = "stop_notify") ~> (cpc[c] = "idle" /\ ~g_recording_session.exists)

\* C13: a capture call (record_frame, get_recording_buffer_usage,
\* get_recording_frame_count, get_recording_status) never waits on the
\* encoder: in no reachable state is such a call unable to proceed because
\* g_recording_mutex is held by a caller that is itself joining the encoding
\* thread.
JoinsEncoder(c) ==
    g_recording_mutex = c /\ cpc[c] = "stop_join" /\ epc # "exited"

CaptureCallBlocked(d) ==
    /\ CanCall(d)
    /\ \/ ~ENABLED (\E ptr_ok \in BOOLEAN : RecordFrameBegin(d, ptr_ok))
       \/ ~ENABLED niceshot_get_recording_buffer_usage(d)
       \/ ~ENABLED niceshot_get_recording_frame_count(d)
       \/ ~ENABLED niceshot_get_recording_status(d)

C13_CaptureCallsNeverWaitOnEncoder ==
    \A c \in Callers : \A d \in Callers \ {c} :
        ~(JoinsEncoder(c) /\ CaptureCallBlocked(d))

\* C14 as stated: after niceshot_shutdown has returned, get_pending_job_count
\* returns 0, every worker has been joined, and initialization starts the id
\* counter at 1 so that the first successful submit returns 1.
ShutdownReturned == \E d \in Callers : cret[d] = [fn |-> "shutdown", val |-> 1]

C15_InvalidSubmitRejected ==
    [][\A c \in Callers, d \in Dims :
         ( /\ SubmitBegin(c, d[1], d[2])
           /\ \/ ~g_initialized
              \/ d[1] <= 0 \/ d[2] <= 0
              \/ d[1] > MaxDimension \/ d[2] > MaxDimension )
         => /\ cret'[c] = [fn |-> "save_png_async", val |-> 0]
            /\ cpc'[c] = "idle"
            /\ UNCHANGED <<g_job_queue, g_active_jobs, jobs, g_next_job_id>>]_vars

\* C17: get_job_status(id) returns -2 exactly when the system is not
\* initialized, id is 0 or no job with that id is registered; otherwise it
\* returns the registered job's status, one of 0, 1, 2, -1; and it changes no
\* state.
C17_StatusIffRegistered ==
    [][\A c \in Callers, id \in 0..MaxJobs :
         (cret'[c].fn = "get_job_status" /\ niceshot_get_job_status(c, id)) =>
            /\ IF ~g_initialized \/ id = 0 \/ id \notin g_active_jobs
               THEN cret'[c].val = -2
               ELSE /\ cret'[c].val = jobs[id].status
                    /\ cret'[c].val \in {0, 1, 2, -1}
            /\ UNCHANGED <<jobVars, capVars, hostBuffer>>]_vars

C17_Witness ==
    /\ g_initialized
    /\ \E c \in Callers : cret[c] = [fn |-> "get_job_status", val |-> -1]
    /\ \E c \in Callers : cpc[c] = "sub_push"

\* C16: the cleanup_job(id) that returns 1 leaves id out of the registry, so
\* the cleanup_job(id) that follows returns 0 and the lookup of
\* get_job_status(id) gives -2; and an id that was issued and is no longer
\* registered is never registered again, so this stays so for every later
\* call, from either caller.
Issued(id) == id < g_next_job_id /\ \A c \in Callers : ~(InSubmit(c) /\ carg[c] = id)

C16_CleanupTwice ==
    /\ [][\A c \in Callers, id \in JobIds :
            (cret'[c] = [fn |-> "cleanup_job", val |-> 1] /\ niceshot_cleanup_job(c, id))
            => /\ jobs[id].status \in Terminal
               /\ id \notin g_active_jobs'
               /\ ~CanCleanup(id)'
               /\ LookupStatus(id)' = -2]_vars
    /\ [][\A id \in JobIds :
            (Issued(id) /\ id \notin g_active_jobs) =>
               /\ id \notin g_active_jobs'
               /\ LookupStatus(id)' = -2
               /\ \A c \in Callers :
                    (cret'[c].fn = "cleanup_job" /\ niceshot_cleanup_job(c, id))
                    => cret'[c].val = 0]_vars

C16_Witness ==
    /\ g_initialized
    /\ Issued(1) /\ 1 \notin g_active_jobs
    /\ \E c \in Callers : cret[c] = [fn |-> "cleanup_job", val |-> 0]
    /\ 2 \in g_active_jobs /\ jobs[2].status \in Terminal

\* C18: every successful submit takes the current value of the id counter,
\* which is at least 1 and above every id issued since the counter was last
\* at 1, and moves the counter up by one; the counter goes back to 1 only in
\* the step that completes a shutdown, which leaves the registry and the queue
\* empty.
IdsInUse ==
    g_active_jobs \cup Range(g_job_queue)
      \cup {carg[c] : c \in {d \in Callers : InSubmit(d)}}

C18_IdsIncrease ==
    /\ [](g_next_job_id >= 1 /\ \A id \in IdsInUse : 1 <= id /\ id < g_next_job_id)
    /\ [](~g_initialized => g_next_job_id = 1)
    /\ [][\A c \in Callers :
            /\ (cpc[c] = "idle" /\ cpc'[c] = "sub_push")
                 => carg'[c] = g_next_job_id /\ g_next_job_id' = g_next_job_id + 1
            /\ (cpc[c] = "sub_notify" /\ cpc'[c] = "idle")
                 => cret'[c] = [fn |-> "save_png_async", val |-> carg[c]]]_vars
    /\ [][g_next_job_id' # g_next_job_id =>
            \/ g_next_job_id' = g_next_job_id + 1
            \/ /\ \E c \in Callers :
                     cpc[c] = "sd_join" /\ cret'[c] = [fn |-> "shutdown", val |-> 1]
               /\ g_next_job_id' = 1
               /\ g_active_jobs' = {} /\ g_job_queue' = <<>>
               /\ \A w \in Workers : wpc'[w] = "none"]_vars

C18_Witness ==
    /\ g_next_job_id = MaxJobs + 1
    /\ \E c \in Callers : cret[c] = [fn |-> "save_png_async", val |-> MaxJobs]
    /\ jobs[1].status \in Terminal

\* C19: niceshot_init on an initialized system and niceshot_shutdown on an
\* uninitialized system return 1 and change nothing: no worker is spawned or
\* moved, no job, queue entry, flag or counter is touched.
C19_LifecycleIdempotent ==
    [][\A c \in Callers :
         /\ (cret'[c].fn = "init" /\ g_initialized)
              => cret'[c].val = 1 /\ UNCHANGED <<jobVars, capVars, hostBuffer>>
         /\ (cret'[c].fn = "shutdown" /\ ~g_initialized)
              => cret'[c].val = 1 /\ UNCHANGED <<jobVars, capVars, hostBuffer>>]_vars

C19_Witness ==
    /\ g_initialized
    /\ \E c \in Callers : cret[c] = [fn |-> "init", val |-> 1]
    /\ \E w \in Workers : wpc[w] = "encode"
    /\ g_job_queue # <<>>

\* C20: when record_frame runs on a RECORDING session whose usage plus one
\* frame footprint is at most the ceiling, the frame is admitted; the call
\* appends exactly that frame at the tail of the ring buffer and adds exactly
\* its footprint to the usage, then increments frames_captured by one and
\* returns 1; frames_dropped does not change between admission and return.
InRecordFrame(c) == cpc[c] \in {"rf_push", "rf_notify"}

C20_AcceptedFrame ==
    /\ [][\A c \in Callers :
            ( /\ RecordFrameBegin(c, TRUE)
              /\ Recording
              /\ Session.current_buffer_memory + Footprint <= Session.max_buffer_memory )
            => /\ cpc'[c] = "rf_push"
               /\ carg'[c] = Session.frames_captured
               /\ Session' = Session]_vars
    /\ [][\A c \in Callers :
            RecordFramePush(c)
            => /\ Session'.frame_buffer = Append(Session.frame_buffer, Session.frames_captured)
               /\ Session'.current_buffer_memory = Session.current_buffer_memory + Footprint
               /\ Session'.frames_captured = Session.frames_captured
               /\ Session'.frames_dropped = Session.frames_dropped]_vars
    /\ [][\A c \in Callers :
            RecordFrameNotify(c)
            => /\ cret'[c] = [fn |-> "record_frame", val |-> 1]
               /\ Session'.frames_captured = Session.frames_captured + 1
               /\ Session'.frames_dropped = Session.frames_dropped
               /\ Session'.frame_buffer = Session.frame_buffer
               /\ Session'.current_buffer_memory = Session.current_buffer_memory]_vars
    /\ [][(\E c \in Callers : InRecordFrame(c))
            => /\ Session'.exists /\ Session'.status = RECORDING
               /\ Session'.frames_dropped = Session.frames_dropped
               /\ Session'.frames_captured # Session.frames_captured
                    => \E c \in Callers : cpc[c] = "rf_notify" /\ cpc'[c] = "idle"]_vars

C20_Witness ==
    /\ \E c \in Callers : cret[c] = [fn |-> "record_frame", val |-> 1]
    /\ Session.max_buffer_frames = MaxBufferFrames
    /\ Len(Session.frame_buffer) = MaxBufferFrames
    /\ Session.current_buffer_memory = Session.max_buffer_memory
    /\ Session.frames_dropped = 0
    /\ Session.frames_encoded > 0

\* C21: record_frame called when no session exists, or when the session's
\* status is not RECORDING, returns 0 and leaves every counter, the ring
\* buffer, the memory usage and the encoding thread as they were.
C21_RejectedWhenNotRecording ==
    [][\A c \in Callers :
         ( /\ \E ptr_ok \in BOOLEAN : RecordFrameBegin(c, ptr_ok)
           /\ ~Recording )
         => /\ cret'[c] = [fn |-> "record_frame", val |-> 0]
            /\ cpc'[c] = "idle"
            /\ UNCHANGED <<g_recording_session, g_recording_mutex, buffer_mutex,
                           epc, eframe, encodedLog>>]_vars

C21_Witness ==
    /\ \E c \in Callers : cret[c] = [fn |-> "record_frame", val |-> 0]
    /\ g_initialized
    /\ ~Session.exists

\* C22: the memory of the live capture frames (the frames in the ring buffer,
\* the frame record_frame has built and not yet pushed, and the frame the
\* encoding thread has popped and not yet destroyed) never exceeds the
\* session's max_buffer_memory.
LiveFrames ==
    Len(Session.frame_buffer)
      + Cardinality({c \in Callers : cpc[c] = "rf_push"})
      + (IF eframe # NoFrame THEN 1 ELSE 0)

C22_LiveFrameMemoryBounded ==
    Session.exists => LiveFrames * Footprint <= Session.max_buffer_memory

\* C23: stop_recording called when no session is RECORDING returns 0 and
\* changes nothing; in the state a stop_recording that returns 1 leaves, no
\* session and no encoding thread exist (so a repeated stop_recording returns
\* 0); and on an initialized system without a session, start_recording with
\* positive settings, when its thread can be created, returns 1 and leaves a
\* RECORDING session with an empty ring buffer and all counters at 0.
ValidStartArgs == {a \in StartArgs : \A i \in 1..5 : a[i] > 0}

C23_StopThenStartAgain ==
    /\ [](\A c \in Callers :
            cret[c] = [fn |-> "stop_recording", val |-> 1]
            => ~Session.exists /\ epc = "none")
    /\ [][\A c \in Callers :
            /\ (StopBegin(c) /\ ~Recording)
               => /\ cret'[c] = [fn |-> "stop_recording", val |-> 0]
                  /\ cpc'[c] = "idle"
                  /\ UNCHANGED <<g_recording_session, g_recording_mutex,
                                 buffer_mutex, epc, eframe, encodedLog>>
            /\ ( /\ \E a \in ValidStartArgs :
                      niceshot_start_recording(c, a[1], a[2], a[3], a[4], a[5], TRUE)
                 /\ g_initialized
                 /\ ~Session.exists )
               => /\ cret'[c] = [fn |-> "start_recording", val |-> 1]
                  /\ Session'.exists
                  /\ Session'.status = RECORDING
                  /\ Session'.frames_captured = 0
                  /\ Session'.frames_encoded = 0
                  /\ Session'.frames_dropped = 0
                  /\ Session'.current_buffer_memory = 0
                  /\ Session'.frame_buffer = <<>>
                  /\ epc' = "loop"]_vars

C23_Witness ==
    /\ \E c \in Callers : cret[c] = [fn |-> "stop_recording", val |-> 1]
    /\ ~Session.exists
    /\ epc = "none"

\* C24: with no session, get_recording_buffer_usage and
\* get_recording_frame_count return -1 and get_recording_status returns
\* NOT_RECORDING (0); while a session is RECORDING, get_recording_buffer_usage
\* returns a value within 0..100 and get_recording_frame_count returns the
\* number of frames accepted so far (encoded, being encoded, or in the ring
\* buffer).
AcceptedFrames ==
    Len(encodedLog) + (IF eframe # NoFrame THEN 1 ELSE 0) + Len(Session.frame_buffer)

C24_QueriesReportSession ==
    [][\A c \in Callers :
         /\ niceshot_get_recording_buffer_usage(c)
            => /\ ~Session.exists => cret'[c].val = -1
               /\ Recording => cret'[c].val \in 0..100
         /\ niceshot_get_recording_frame_count(c)
            => /\ ~Session.exists => cret'[c].val = -1
               /\ Recording => cret'[c].val = AcceptedFrames
         /\ niceshot_get_recording_status(c)
            => (~Session.exists => cret'[c].val = NOT_RECORDING)]_vars

\* C25: in a RECORDING session with max_buffer_frames = k from which the
\* encoding thread has popped nothing yet, the n-th record_frame with a valid
\* pointer is accepted when n <= k and dropped otherwise; an accepted call
\* adds 1 to frames_captured only and a dropped call adds 1 to frames_dropped
\* only, so after n calls min(n, k) frames are accepted, all of them in the
\* ring buffer, and frames_captured + frames_dropped = n.
NoPopYet == encodedLog = <<>> /\ eframe = NoFrame

Min(a, b) == IF a <= b THEN a ELSE b

C25_FirstFramesAcceptedRestDropped ==
    /\ []( (Recording /\ NoPopYet /\ g_recording_mutex = 0)
           => /\ Session.frames_captured =
                    Min(Session.frames_captured + Session.frames_dropped,
                        Session.max_buffer_frames)
              /\ Len(Session.frame_buffer) = Session.frames_captured )
    /\ [][\A c \in Callers :
            /\ (RecordFrameBegin(c, TRUE) /\ Recording /\ NoPopYet)
               => IF Session.frames_captured + Session.frames_dropped
                        < Session.max_buffer_frames
                  THEN /\ cpc'[c] = "rf_push"
                       /\ UNCHANGED g_recording_session
                  ELSE /\ cret'[c] = [fn |-> "record_frame", val |-> FrameDropped]
                       /\ Session'.frames_dropped = Session.frames_dropped + 1
                       /\ Session'.frames_captured = Session.frames_captured
            /\ RecordFrameNotify(c)
               => /\ cret'[c] = [fn |-> "record_frame", val |-> 1]
                  /\ Session'.frames_captured = Session.frames_captured + 1
                  /\ Session'.frames_dropped = Session.frames_dropped]_vars

C25_Witness ==
    /\ Recording
    /\ NoPopYet
    /\ g_recording_mutex = 0
    /\ Session.max_buffer_frames = MaxBufferFrames
    /\ Session.frames_captured = MaxBufferFrames
    /\ Session.frames_dropped = MaxFrames - MaxBufferFrames
    /\ \E c \in Callers : cret[c] = [fn |-> "record_frame", val |-> FrameDropped]

\* C26: an encode that fails makes its own job FAILED and nothing else: the
\* worker that ran it goes back to the top of its loop (and claims further
\* jobs), no other job's status and no other worker changes, and while the
\* system is initialized and shutdown has not been requested the number of
\* live workers is the thread count.
LiveWorkers == {w \in Workers : wpc[w] \notin {"none", "exited"}}

OtherStatusesKept(id) ==
    \A other \in JobIds \ {id} : jobs'[other].status = jobs[other].status

C26_FailedEncodeIsLocal ==
    /\ []( (g_initialized /\ ~g_shutdown_requested)
           => Cardinality(LiveWorkers) = g_thread_count )
    /\ [][\A w \in Workers :
            /\ (wpc[w] = "encode" /\ WorkerEncode(w, FALSE))
               => /\ wpc'[w] = "update"
                  /\ \A id \in JobIds : jobs'[id].status = jobs[id].status
                  /\ \A v \in Workers \ {w} : wpc'[v] = wpc[v]
            /\ (wpc[w] = "update" /\ WorkerUpdate(w) /\ ~wok[w])
               => /\ jobs'[wjob[w]].status = FAILED
                  /\ OtherStatusesKept(wjob[w])
                  /\ wpc'[w] = "loop"
                  /\ \A v \in Workers \ {w} : wpc'[v] = wpc[v]]_vars

C26_Witness ==
    /\ g_thread_count = 1
    /\ jobs[1].status = FAILED
    /\ wjob[1] = 2
    /\ jobs[2].status = PROCESSING
    /\ wpc[1] = "encode"
    /\ ~g_shutdown_requested

\* C27 as claimed: niceshot_set_thread_count on an initialized system returns
\* 0 and leaves the thread count and the workers as they are; every value
\* outside 1..8 is rejected; and niceshot_init on an uninitialized system
\* spawns the configured number of workers, or min(hardware threads, 8), at
\* least 1, when none was configured.
SetRejected(c) ==
    /\ cret'[c] = [fn |-> "set_thread_count", val |-> 0]
    /\ UNCHANGED <<g_thread_count, wpc>>

\* (the consequent is written first: it is the cheap test)
SetThreadCountFrozen(c) ==
    g_initialized
    => \/ SetRejected(c)
       \/ \A n \in ThreadCountArgs : ~niceshot_set_thread_count(c, n)

InitSpawnsConfigured(c) ==
    \A hw \in HwAll :
        ( /\ ~g_initialized
          /\ g_thread_count = 0 \/ hw = 0
          /\ niceshot_init(c, hw) )
        => LET expected ==
                   IF g_thread_count # 0 THEN g_thread_count
                   ELSE IF hw = 0 THEN 1 ELSE Min(hw, ThreadCap)
           IN /\ g_thread_count' = expected
              /\ Cardinality({w \in Workers : wpc'[w] = "loop"}) = expected
              /\ g_initialized'

C27_ThreadCountOutsideRangeRejected ==
    [][\A c \in Callers :
         /\ cret'[c].fn = "init" => InitSpawnsConfigured(c)
         /\ cret'[c].fn = "set_thread_count"
            => /\ SetThreadCountFrozen(c)
               /\ \A n \in ThreadCountArgs :
                     (n < 1 * DoubleScale \/ n > ThreadCap * DoubleScale)
                     => \/ SetRejected(c)
                        \/ ~niceshot_set_thread_count(c, n) ]_vars

\* C27 as amended: the values rejected are those whose integer part (the
\* count after static_cast<size_t>) is outside 1..8; before initialization
\* every other value is accepted and sets the thread count to its integer
\* part.
SetAccepted(c, n) ==
    /\ cret'[c] = [fn |-> "set_thread_count", val |-> 1]
    /\ g_thread_count' * DoubleScale <= n
    /\ n < (g_thread_count' + 1) * DoubleScale

C27_ThreadCountByIntegerPart ==
    [][\A c \in Callers :
         /\ cret'[c].fn = "init" => InitSpawnsConfigured(c)
         /\ cret'[c].fn = "set_thread_count"
            => /\ SetThreadCountFrozen(c)
               /\ \A n \in ThreadCountArgs :
                     IF n < 1 * DoubleScale \/ n >= (ThreadCap + 1) * DoubleScale
                     THEN \/ SetRejected(c)
                          \/ ~niceshot_set_thread_count(c, n)
                     ELSE \/ g_initialized
                          \/ SetAccepted(c, n)
                          \/ ~niceshot_set_thread_count(c, n) ]_vars

C27_Witness ==
    /\ \E c \in Callers : cret[c] = [fn |-> "set_thread_count", val |-> 0]
    /\ g_initialized
    /\ g_thread_count = ThreadCap
    /\ Cardinality(LiveWorkers) = ThreadCap

\* C28: a job's status only moves QUEUED -> PROCESSING -> COMPLETED or
\* FAILED.  The move to PROCESSING is made by the worker that pops the job
\* from the queue, in that same step under g_job_mutex; the move to a
\* terminal status is made by the worker holding the job; a queued job is
\* QUEUED, a PROCESSING job is held by exactly one worker, no two workers
\* hold the same job, and a terminal status is never changed.
Holders(id) == {w \in Workers : wjob[w] = id /\ wpc[w] \in {"encode", "update"}}

StatusMoves(id) ==
    /\ jobs[id] # NoJob
    /\ jobs'[id] # NoJob
    /\ jobs'[id].status # jobs[id].status

ClaimedBy(w, id) ==
    /\ jobs[id].status = QUEUED
    /\ jobs'[id].status = PROCESSING
    /\ wpc[w] = "claim"
    /\ g_job_mutex = WorkerTid(w)
    /\ g_job_queue # <<>>
    /\ Head(g_job_queue) = id
    /\ g_job_queue' = Tail(g_job_queue)
    /\ wjob'[w] = id
    /\ wpc'[w] = "encode"

FinishedBy(w, id) ==
    /\ jobs[id].status = PROCESSING
    /\ jobs'[id].status \in Terminal
    /\ wpc[w] = "update"
    /\ wjob[w] = id
    /\ wpc'[w] = "loop"

C28_StatusMovesForward ==
    /\ [](\A id \in JobIds :
            /\ Cardinality(Holders(id)) <= 1
            /\ Holders(id) # {} => jobs[id].status = PROCESSING
            /\ jobs[id].status = PROCESSING => Holders(id) # {}
            /\ id \in Range(g_job_queue) => jobs[id].status = QUEUED)
    /\ [][\A id \in JobIds :
            StatusMoves(id)
            => \E w \in Workers : ClaimedBy(w, id) \/ FinishedBy(w, id)]_vars

C28_Witness ==
    /\ wpc[1] = "update" /\ wjob[1] = 1
    /\ wpc[2] = "encode" /\ wjob[2] = 2
    /\ jobs[1].status = PROCESSING
    /\ jobs[2].status = PROCESSING
    /\ g_job_queue = <<>>

\* C29: a worker thread exits only from a state in which shutdown has been
\* requested and the job queue is empty, so when niceshot_shutdown has joined
\* the workers no job is left in the queue.
WorkerExits(w) == wpc[w] # "exited" /\ wpc'[w] = "exited"

WorkersJoined ==
    /\ \E c \in Callers : cpc[c] = "sd_join"
    /\ \A w \in Workers : wpc[w] \in {"none", "exited"}

C29_WorkersExitOnEmptyQueue ==
    /\ [][\A w \in Workers :
            WorkerExits(w) => (g_shutdown_requested /\ g_job_queue = <<>>)]_vars
    /\ [](WorkersJoined => g_job_queue = <<>>)

\* C30: g_job_mutex is never held by a worker that is encoding: a worker holds
\* it only inside its wait-and-claim block; every step that changes the
\* queue, the registry or the status of a job is taken by the thread holding
\* the mutex (or taking it for that step); and while a worker encodes, a call
\* of get_job_status, cleanup_job, get_pending_job_count or the push of a
\* submit can proceed unless some thread is inside one of those short blocks.
InsideLockedBlock(w) == g_job_mutex = WorkerTid(w) /\ wpc[w] \in {"claim", "block"}

JobCallBlocked(c) ==
    \/ /\ CanCall(c)
       /\ \/ ~ENABLED niceshot_get_pending_job_count(c)
          \/ ~ENABLED (\E id \in 0..MaxJobs : niceshot_get_job_status(c, id))
          \/ ~ENABLED (\E id \in 0..MaxJobs : niceshot_cleanup_job(c, id))
    \/ /\ cpc[c] = "sub_push"
       /\ ~ENABLED SubmitPush(c)

SharedJobStateChanges ==
    \/ g_job_queue' # g_job_queue
    \/ g_active_jobs' # g_active_jobs
    \/ \E id \in JobIds : StatusMoves(id)

C30_EncodeOutsideJobMutex ==
    /\ [](\A w \in Workers :
            /\ wpc[w] \in {"encode", "update"} => g_job_mutex # WorkerTid(w)
            /\ g_job_mutex = WorkerTid(w) => InsideLockedBlock(w))
    /\ [](g_job_mutex \notin Callers)
    /\ [](\A c \in Callers :
            ((\E w \in Workers : wpc[w] = "encode") /\ JobCallBlocked(c))
            => \E v \in Workers : InsideLockedBlock(v))
    /\ [][SharedJobStateChanges
          => \/ g_job_mutex = 0 /\ g_job_mutex' = 0
             \/ \E w \in Workers :
                   /\ g_job_mutex = WorkerTid(w)
                   /\ wpc[w] = "claim"
                   /\ wpc'[w] = "encode"]_vars

C30_Witness ==
    /\ \E w \in Workers : wpc[w] = "encode" /\ jobs[wjob[w]].status = PROCESSING
    /\ \E c \in Callers : cret[c] = [fn |-> "cleanup_job", val |-> 1]
    /\ g_job_mutex = 0

\* C31: jobs are claimed in the order they were enqueued: the queue only
\* grows at its tail (a push), shrinks at its head (a claim) or is emptied by
\* shutdown, and the job that moves from QUEUED to PROCESSING is the head of
\* the queue, removed in that step.  Completion order is free: with two
\* workers the job claimed second may finish first.
PushedAtTail ==
    \E id \in JobIds :
        id \notin Range(g_job_queue) /\ g_job_queue' = Append(g_job_queue, id)

ClaimedAtHead ==
    /\ g_job_queue # <<>>
    /\ g_job_queue' = Tail(g_job_queue)
    /\ jobs[Head(g_job_queue)].status = QUEUED
    /\ jobs'[Head(g_job_queue)].status = PROCESSING

QueueCleared == g_job_queue' = <<>> /\ ~g_initialized'

C31_ClaimsInFifoOrder ==
    [][ /\ g_job_queue' # g_job_queue
           => PushedAtTail \/ ClaimedAtHead \/ QueueCleared
        /\ \A id \in JobIds :
              (StatusMoves(id) /\ jobs'[id].status = PROCESSING)
              => (ClaimedAtHead /\ Head(g_job_queue) = id) ]_vars

C31_Witness ==
    /\ g_job_queue = <<>>
    /\ \E v \in Workers : wpc[v] = "encode" /\ wjob[v] = 1
    /\ jobs[1].status = PROCESSING
    /\ jobs[2].status = COMPLETED
    /\ g_thread_count = 2


\* C32: every read or write of the session's ring buffer, the read of its
\* size included, is made while buffer_mutex is held by the thread that makes
\* it: the encoding thread holds it where it pops a frame and where it reads
\* the size for its progress log, and the ring buffer changes only in a step
\* of the thread that holds, or takes and releases, buffer_mutex.
EncoderTouchesBuffer == epc \in {"take", "log"}

C32_BufferAccessUnderBufferMutex ==
    EncoderTouchesBuffer => buffer_mutex = EncoderTid


\* who asks for which lock at its next step
WantsJobMutex ==
    {c \in Callers : cpc[c] \in {"sub_push", "sd_join"}}
      \cup {WorkerTid(w) : w \in {v \in Workers : wpc[v] \in {"lock", "update"}}}

WantsBufferMutex ==
    {c \in Callers : cpc[c] = "rf_push"}
      \cup (IF epc = "lock" THEN {EncoderTid} ELSE {})

\* C33: the job system and the capture subsystem never contend on a lock.
\* g_job_mutex is held by worker threads only, g_recording_mutex by callers
\* inside pushFrame or stopCapture only, buffer_mutex by the encoding thread
\* only; whoever asks for g_job_mutex holds neither capture lock, whoever
\* asks for buffer_mutex holds no g_job_mutex and, when it is a caller,
\* already holds g_recording_mutex, the holder of buffer_mutex asks for no
\* lock, and nobody asks for a lock it holds: no cycle of lock waits.
C33_NoLockCycle ==
    /\ g_job_mutex \in {0} \cup {WorkerTid(w) : w \in Workers}
    /\ g_recording_mutex \in {0} \cup Callers
    /\ buffer_mutex \in {0, EncoderTid}
    /\ \A c \in Callers :
         g_recording_mutex = c
            => cpc[c] \in {"rf_push", "rf_notify", "stop_notify", "stop_join"}
    /\ \A t \in WantsJobMutex :
         t \notin {g_job_mutex, g_recording_mutex, buffer_mutex}
    /\ \A t \in WantsBufferMutex :
         /\ t \notin {g_job_mutex, buffer_mutex}
         /\ t \in Callers => g_recording_mutex = t
    /\ buffer_mutex = EncoderTid => epc \in {"block", "take", "sub"}
    /\ \A w \in Workers : g_job_mutex = WorkerTid(w) => wpc[w] \in {"block", "claim"}

\* all three locks held at once: a worker inside its locked block, a caller
\* inside pushFrame waiting for buffer_mutex, the encoding thread holding it
C33_Witness ==
    /\ \E w \in Workers : g_job_mutex = WorkerTid(w)
    /\ \E c \in Callers : g_recording_mutex = c /\ cpc[c] = "rf_push"
    /\ buffer_mutex = EncoderTid
    /\ \E c \in Callers : cpc[c] = "sub_push"


\* the call of c that just returned is a start_recording that failed
StartFailed(c) == cret'[c] = [fn |-> "start_recording", val |-> 0]

\* start_recording fails at line 1022: initialized, positive settings, and a
\* session that is RECORDING
FailsAsAlreadyRecording(a) ==
    g_initialized /\ (\A i \in 1..5 : a[i] > 0) /\ Recording

\* C34 (as stated): a start_recording that returns 0 for a reason other than
\* a session already RECORDING leaves no session and no encoding thread.
C34_FailedStartLeavesNoSession ==
    [][\A c \in Callers : \A a \in BothTiersStartArgs : \A spawned \in BOOLEAN :
         \/ ~Session'.exists /\ epc' = "none"
         \/ ~StartFailed(c)
         \/ FailsAsAlreadyRecording(a)
         \/ ~niceshot_start_recording(c, a[1], a[2], a[3], a[4], a[5], spawned)]_vars

\* C34 (amended): a start_recording that returns 0 for a reason other than a
\* session already RECORDING creates no session and no encoding thread: the
\* session slot, the encoding thread and what it has encoded are as they were
\* before the call, so nothing is live afterwards that was not live before.
C34_FailedStartCreatesNothing ==
    [][\A c \in Callers : \A a \in BothTiersStartArgs : \A spawned \in BOOLEAN :
         \/ UNCHANGED <<g_recording_session, epc, eframe, encodedLog,
                        g_recording_mutex, buffer_mutex>>
         \/ ~StartFailed(c)
         \/ FailsAsAlreadyRecording(a)
         \/ ~niceshot_start_recording(c, a[1], a[2], a[3], a[4], a[5], spawned)]_vars

\* start_recording has just failed on a system that was shut down while a
\* session is RECORDING, its encoding thread alive
C34_Witness ==
    /\ \E c \in Callers : cret[c] = [fn |-> "start_recording", val |-> 0]
    /\ ~g_initialized
    /\ Recording
    /\ epc \notin {"none", "exited"}


Malformed == {settings \in SettingsStrings : Len(settings) # 5}

\* C35: start_recording called with a settings string that does not have
\* exactly five comma-separated fields returns 0 and creates no session and
\* no encoding thread.
C35_MalformedSettingsRejected ==
    [][\A c \in Callers : \A settings \in Malformed :
         \A a \in ParamsRead(settings) : \A spawned \in BOOLEAN :
            \/ /\ StartFailed(c)
               /\ UNCHANGED <<g_recording_session, epc>>
            \/ ~niceshot_start_recording(c, a[1], a[2], a[3], a[4], a[5], spawned)]_vars


\* the frame the encoding thread has popped and not yet counted as encoded
BeingEncoded == IF epc \in {"sub", "encode"} THEN 1 ELSE 0

\* producers that have appended their frame (line 1094) and not yet counted
\* it as captured (line 1100)
Uncounted == Cardinality({c \in Callers : cpc[c] = "rf_notify"})

CountersNeverDecrease ==
    (Session.exists /\ Session'.exists)
    => /\ Session'.frames_captured >= Session.frames_captured
       /\ Session'.frames_encoded >= Session.frames_encoded
       /\ Session'.frames_dropped >= Session.frames_dropped

\* C36 (as stated): in every reachable state of a session frames_encoded <=
\* frames_captured, no counter ever decreases, and frames_captured -
\* frames_encoded is the number of frames in the ring buffer plus the frame
\* the encoding thread is encoding.
C36_CountersAccountForFrames ==
    /\ [](Session.exists
            => /\ Session.frames_encoded <= Session.frames_captured
               /\ Session.frames_captured - Session.frames_encoded
                    = Len(Session.frame_buffer) + BeingEncoded)
    /\ [][CountersNeverDecrease]_vars

\* C36 (amended): in every reachable state of a session no counter has
\* decreased, and frames_captured - frames_encoded is the number of frames in
\* the ring buffer plus the frame being encoded, less the frame (if any) that
\* a pushFrame has appended and not yet counted; so frames_encoded <=
\* frames_captured + 1, and the relations of the claim hold whenever no
\* pushFrame is between its append and its count.
C36_CountersAccountForCountedFrames ==
    /\ [](Session.exists
            => /\ Uncounted <= 1
               /\ Session.frames_encoded <= Session.frames_captured + Uncounted
               /\ Session.frames_captured + Uncounted - Session.frames_encoded
                    = Len(Session.frame_buffer) + BeingEncoded)
    /\ [][CountersNeverDecrease]_vars

\* the frame was appended, popped and encoded before its producer counted it
C36_Witness ==
    /\ Session.exists
    /\ Session.frames_encoded = 2
    /\ Session.frames_captured = 1
    /\ Uncounted = 1
    /\ Session.frame_buffer = <<>>


\* C37: whenever buffer_mutex is free, current_buffer_memory is the number of
\* frames in the ring buffer times the footprint of one frame of the session,
\* and so 0 when the ring buffer is empty.
C37_UsageIsBufferContents ==
    (Session.exists /\ buffer_mutex = 0)
    => /\ Session.current_buffer_memory = Len(Session.frame_buffer) * Footprint
       /\ Session.frame_buffer = <<>> => Session.current_buffer_memory = 0

\* the mutex is free again after a pop that left one of two frames behind
C37_Witness ==
    /\ Session.exists
    /\ buffer_mutex = 0
    /\ Len(Session.frame_buffer) = 1
    /\ Session.current_buffer_memory = Footprint
    /\ epc = "encode"
    /\ Session.frames_captured = 2


\* the registered jobs whose status is QUEUED
RegisteredQueued == {id \in g_active_jobs : jobs[id].status = QUEUED}

\* C38: whenever g_job_mutex is free, g_job_queue holds exactly the
\* registered jobs whose status is QUEUED, each once; so what
\* get_pending_job_count returns on an initialized system is the number of
\* registered jobs in status QUEUED.
C38_QueueIsRegisteredQueued ==
    /\ g_job_mutex = 0
         => /\ Range(g_job_queue) = RegisteredQueued
            /\ Len(g_job_queue) = Cardinality(RegisteredQueued)
    /\ \A c \in Callers :
         (cret[c].fn = "get_pending_job_count" /\ g_initialized)
            => cret[c].val = Cardinality(RegisteredQueued)

\* two jobs registered, one claimed and one still queued, when the count is
\* returned
C38_Witness ==
    /\ \E c \in Callers : cret[c] = [fn |-> "get_pending_job_count", val |-> 1]
    /\ g_initialized
    /\ Cardinality(g_active_jobs) = 2
    /\ \E id \in g_active_jobs : jobs[id].status = PROCESSING


InShutdown(c) == cpc[c] \in {"sd_notify", "sd_join"}

ShutdownStep(c) ==
    \/ cret'[c].fn = "shutdown"
    \/ cpc'[c] # cpc[c] /\ (InShutdown(c) \/ InShutdown(c)')

CaptureUntouched ==
    UNCHANGED <<g_recording_session, g_recording_mutex, buffer_mutex, epc, eframe,
                encodedLog>>

\* C40: shutdown leaves the capture subsystem alone.  No step of
\* niceshot_shutdown changes the session, its locks or its encoding thread;
\* a session that is RECORDING while a shutdown is in progress stays
\* RECORDING with its encoding thread alive and its captured and dropped
\* counters as they were, its buffer changing only by what the encoding thread
\* pops; and on the uninitialized system a pushFrame on that session is
\* accepted or dropped, never rejected, and a stopCapture finalizes it.
C40_ShutdownLeavesCapture ==
    [][/\ \A c \in Callers :
            /\ CaptureUntouched \/ ~ShutdownStep(c)
            /\ \/ /\ Recording'
                  /\ epc' \notin {"none", "exited"}
                  /\ Session'.frames_captured = Session.frames_captured
                  /\ Session'.frames_dropped = Session.frames_dropped
                  /\ CaptureUntouched \/ EncoderNext
               \/ ~(Recording /\ (InShutdown(c) \/ ShutdownStep(c)))
            /\ \/ cpc'[c] = "rf_push"
               \/ cret'[c] = [fn |-> "record_frame", val |-> FrameDropped]
               \/ ~(Recording /\ ~g_initialized)
               \/ ~RecordFrameBegin(c, TRUE)
            /\ \/ Session'.status = FINALIZING /\ cpc'[c] = "stop_notify"
               \/ ~(Recording /\ ~g_initialized)
               \/ ~StopBegin(c)]_vars

\* a frame has just been accepted by a session that outlived a shutdown
C40_Witness ==
    /\ ~g_initialized
    /\ Recording
    /\ \E c \in Callers : cret[c] = [fn |-> "record_frame", val |-> 1]
    /\ Session.frames_captured = 1

====
